---- MODULE Spec2Model ----
(***************************************************************************)
(* Header Inspector of ddd-reader-desktop: tools/simple_dump.py.           *)
(*                                                                         *)
(* parse_ddd(filepath) sizes the file, takes the base name of the path,    *)
(* opens the file, reads its first 16 bytes, renders them as hexadecimal   *)
(* and returns a dict; any Exception on the way becomes {"error": str(e)}. *)
(* The script's main block calls it on sys.argv[1] and prints the JSON.    *)
(*                                                                         *)
(* A path is a sequence of pieces: the separator "/" or a name free of     *)
(* separators.  A byte is an integer 0..255, a text is a sequence of       *)
(* strings (its pieces in order).                                          *)
(***************************************************************************)
EXTENDS Integers, Sequences, FiniteSets, TLC

\* ---------------------------------------------------------------- bounds

\* Longest file of the file system, in bytes (one more than the header).
MaxFileLen == 17

\* Python processes running the script in parallel (SpecPar).
NumProcs == 2

\* Calls of parse_ddd one caller makes in succession (SpecSeq).
MaxCalls == 2

\* ------------------------------------------------------ program constants

\* f.read(16)
HeaderLen == 16

\* json.dumps(result, indent=2)
Indent == 2

\* sys.exit(1)
ExitNoFile == 1

Procs == 1..NumProcs

Min(a, b) == IF a < b THEN a ELSE b

\* --------------------------------------------------------- the file system

\* The directory that holds the files of length n.
LenDirs ==
    << "len0", "len1", "len2", "len3", "len4", "len5", "len6", "len7",
       "len8", "len9", "len10", "len11", "len12", "len13", "len14", "len15",
       "len16", "len17", "len18", "len19", "len20", "len21", "len22", "len23" >>

LenDir(n) == LenDirs[n + 1]

\* The character NUL inside a path.
NUL == "<NUL>"

\* Three families of file contents, n bytes each.
BytesUp(n) == [i \in 1..n |-> (i - 1) % 256]
BytesDown(n) == [i \in 1..n |-> (256 - i) % 256]
BytesMixed(n) == [i \in 1..n |-> (171 * i + 9) % 256]

\* What a path resolves to.  errno # 0: resolving the path itself fails.
RegularFile(bytes) ==
    [kind |-> "file", errno |-> 0, st_size |-> Len(bytes), bytes |-> bytes,
     readable |-> TRUE, eio |-> FALSE]
Directory ==
    [kind |-> "dir", errno |-> 0, st_size |-> 4096, bytes |-> << >>,
     readable |-> TRUE, eio |-> FALSE]
Unresolved(errno) ==
    [kind |-> "none", errno |-> errno, st_size |-> 0, bytes |-> << >>,
     readable |-> FALSE, eio |-> FALSE]

FileLens == 0..MaxFileLen

UpPath(n) == << "a", "/", LenDir(n), "/", "card.ddd" >>
DownPath(n) == << "b", "/", LenDir(n), "/", "card.ddd" >>
MixedPath(n) == << "/", "c", "/", LenDir(n), "/", "other.bin" >>

SamplePath == << "sample.ddd" >>
SecretPath == << "secret.ddd" >>
BadDiskPath == << "/", "mnt", "/", "bad.ddd" >>
DirPath == << "a" >>
DirSlashPath == << "a", "/" >>
EmptyPath == << >>
MissingPath == << "missing.ddd" >>
MissingAbsPath == << "/", "no", "/", "such.ddd" >>
MissingDotPath == << ".", "/", "a", "/", "..", "/", "missing.ddd" >>
FileSlashPath == << "sample.ddd", "/" >>
LockedDirPath == << "locked", "/", "card.ddd" >>
NulPath == << "a", NUL, "b" >>

ReadablePaths ==
    {UpPath(n) : n \in FileLens} \cup {DownPath(n) : n \in FileLens}
        \cup {MixedPath(n) : n \in FileLens} \cup {SamplePath}

FailingPaths ==
    {SecretPath, BadDiskPath, DirPath, DirSlashPath, EmptyPath, MissingPath,
     MissingAbsPath, MissingDotPath, FileSlashPath, LockedDirPath, NulPath}

Paths == ReadablePaths \cup FailingPaths

\* The paths the parallel processes are given.
ParPaths ==
    {UpPath(MaxFileLen), DownPath(MaxFileLen), SamplePath, MissingPath,
     DirPath, SecretPath, BadDiskPath}

TheFileSystem ==
    [p \in Paths |->
        CASE \E n \in FileLens : p = UpPath(n) ->
                RegularFile(BytesUp(CHOOSE n \in FileLens : p = UpPath(n)))
          [] \E n \in FileLens : p = DownPath(n) ->
                RegularFile(BytesDown(CHOOSE n \in FileLens : p = DownPath(n)))
          [] \E n \in FileLens : p = MixedPath(n) ->
                RegularFile(BytesMixed(CHOOSE n \in FileLens : p = MixedPath(n)))
          [] p = SamplePath -> RegularFile(<< 0, 1, 2, 3 >>)
          [] p = SecretPath ->
                [RegularFile(<< 1, 2, 3, 4 >>) EXCEPT !.readable = FALSE]
          [] p = BadDiskPath ->
                [RegularFile(BytesUp(MaxFileLen)) EXCEPT !.eio = TRUE]
          [] p \in {DirPath, DirSlashPath} -> Directory
          [] p \in {EmptyPath, MissingPath, MissingAbsPath, MissingDotPath} ->
                Unresolved(2)
          [] p = FileSlashPath -> Unresolved(20)
          [] p = LockedDirPath -> Unresolved(13)
          [] OTHER -> Unresolved(2)]

\* ------------------------------------------------------------- exceptions

NoExc == [cls |-> "None", errno |-> 0, filename |-> << >>, named |-> FALSE]

\* OSError(errno, strerror, filename) as the interpreter raises it: the
\* subclass follows the errno.
OSErrorClass(errno) ==
    CASE errno = 2 -> "FileNotFoundError"
      [] errno = 13 -> "PermissionError"
      [] errno = 20 -> "NotADirectoryError"
      [] errno = 21 -> "IsADirectoryError"
      [] OTHER -> "OSError"

OSErrorAt(errno, path) ==
    [cls |-> OSErrorClass(errno), errno |-> errno, filename |-> path,
     named |-> TRUE]

OSErrorPlain(errno) ==
    [cls |-> OSErrorClass(errno), errno |-> errno, filename |-> << >>,
     named |-> FALSE]

ValueErrorNul ==
    [cls |-> "ValueError", errno |-> 0, filename |-> << >>, named |-> FALSE]

Strerror(errno) ==
    CASE errno = 2 -> "[Errno 2] No such file or directory"
      [] errno = 5 -> "[Errno 5] Input/output error"
      [] errno = 13 -> "[Errno 13] Permission denied"
      [] errno = 20 -> "[Errno 20] Not a directory"
      [] errno = 21 -> "[Errno 21] Is a directory"
      [] OTHER -> "[Errno ?] Unknown error"

\* str(e)
StrExc(e) ==
    IF e.cls = "ValueError" THEN << "embedded null byte" >>
    ELSE IF e.named
         THEN << Strerror(e.errno), ": '" >> \o e.filename \o << "'" >>
         ELSE << Strerror(e.errno) >>

\* The classes `except Exception` catches; KeyboardInterrupt, SystemExit and
\* GeneratorExit derive from BaseException only.
ExceptionClasses ==
    {"ValueError", "OSError", "FileNotFoundError", "PermissionError",
     "NotADirectoryError", "IsADirectoryError"}

\* except FileNotFoundError: the other causes are not caught.
CaughtNotFoundOnly(e) == e.cls = "FileNotFoundError"

Caught(e) == e.cls \in ExceptionClasses

\* ------------------------------------------------- the calls parse_ddd makes

HasNul(path) == \E i \in 1..Len(path) : path[i] = NUL

Node(fsys, path) ==
    IF path \in DOMAIN fsys THEN fsys[path] ELSE Unresolved(2)

\* os.path.getsize(filepath): os.stat(filepath).st_size
GetSize(fsys, path) ==
    IF HasNul(path) THEN [exc |-> ValueErrorNul, size |-> 0]
    ELSE IF Node(fsys, path).errno # 0
         THEN [exc |-> OSErrorAt(Node(fsys, path).errno, path), size |-> 0]
         ELSE [exc |-> NoExc, size |-> Node(fsys, path).st_size]

\* os.path.basename(filepath): what follows the last separator.
LastSep(path) ==
    IF \E i \in 1..Len(path) : path[i] = "/"
    THEN CHOOSE i \in 1..Len(path) :
            /\ path[i] = "/"
            /\ \A j \in (i + 1)..Len(path) : path[j] # "/"
    ELSE 0

Basename(path) == SubSeq(path, LastSep(path) + 1, Len(path))

\* open(filepath, 'rb'): the exception it raises, NoExc when it opens.
OpenExc(fsys, path) ==
    IF HasNul(path) THEN ValueErrorNul
    ELSE IF Node(fsys, path).errno # 0
         THEN OSErrorAt(Node(fsys, path).errno, path)
         ELSE IF Node(fsys, path).kind = "dir" THEN OSErrorAt(21, path)
              ELSE IF ~Node(fsys, path).readable THEN OSErrorAt(13, path)
                   ELSE NoExc

\* f.read(): the rest of the file, whatever n.
FReadAll(bytes, pos, n) == SubSeq(bytes, pos + 1, Len(bytes))

\* f.read(n) at position pos: at most n bytes, fewer at the end of the file.
FRead(bytes, pos, n) == SubSeq(bytes, pos + 1, Min(pos + n, Len(bytes)))

\* bytes.hex(): two lowercase digits per byte, the high nibble first.
HexDigits ==
    << "0", "1", "2", "3", "4", "5", "6", "7",
       "8", "9", "a", "b", "c", "d", "e", "f" >>

\* bytes.hex().upper(): the digits in upper case.
HexDigitUpper(nibble) ==
    << "0", "1", "2", "3", "4", "5", "6", "7",
       "8", "9", "A", "B", "C", "D", "E", "F" >>[nibble + 1]

HexDigit(nibble) == HexDigits[nibble + 1]

Hex(bytes) ==
    [i \in 1..(2 * Len(bytes)) |->
        IF i % 2 = 1
        THEN HexDigit(bytes[(i + 1) \div 2] \div 16)
        ELSE HexDigit(bytes[i \div 2] % 16)]

\* ----------------------------------------------------- the results returned

Pending == [pending |-> TRUE]

\* "fileSize": len(header), the bytes read in place of the size of the file.
SuccessResultHeaderSize(name, size, hex) ==
    [title |-> "Report from Python Parser",
     filename |-> name,
     format |-> "DDD",
     fileSize |-> Len(hex) \div 2,
     headerHex |-> hex,
     message |-> "This file was processed by the Python fallback parser."]

\* "format" told from the first byte of the header.
SuccessResultSniffing(name, size, hex) ==
    [title |-> "Report from Python Parser",
     filename |-> name,
     format |-> IF Len(hex) >= 2 /\ SubSeq(hex, 1, 2) = << "0", "0" >>
                THEN "DDD" ELSE "UNKNOWN",
     fileSize |-> size,
     headerHex |-> hex,
     message |-> "This file was processed by the Python fallback parser."]

SuccessResult(name, size, hex) ==
    [title |-> "Report from Python Parser",
     filename |-> name,
     format |-> "DDD",
     fileSize |-> size,
     headerHex |-> hex,
     message |-> "This file was processed by the Python fallback parser."]

\* The error added to a result whose fixed fields are already filled in.
ErrorResultPartial(e) ==
    [title |-> "Report from Python Parser", format |-> "DDD",
     error |-> StrExc(e)]

ErrorResult(e) == [error |-> StrExc(e)]

NoFileResult == [error |-> << "No file provided" >>]

\* The keys of a dict in insertion order.
KeysInOrder(obj) ==
    IF "error" \in DOMAIN obj THEN << "error" >>
    ELSE << "title", "filename", "format", "fileSize", "headerHex", "message" >>

\* json.dumps(obj, indent=indent): the members in insertion order, laid out
\* on one line (indent -1, Python's None) or one per line, indented.
JsonDumps(obj, indent) ==
    [indent |-> indent,
     members |-> [i \in 1..Len(KeysInOrder(obj)) |->
                    [key |-> KeysInOrder(obj)[i],
                     value |-> obj[KeysInOrder(obj)[i]]]]]

\* parse_ddd run to its end on an unchanging file system.
parse_ddd(fsys, path) ==
    LET st == GetSize(fsys, path)
        op == OpenExc(fsys, path)
        header == FRead(Node(fsys, path).bytes, 0, HeaderLen)
    IN  IF st.exc # NoExc THEN ErrorResult(st.exc)
        ELSE IF op # NoExc THEN ErrorResult(op)
             ELSE IF Node(fsys, path).eio THEN ErrorResult(OSErrorPlain(5))
                  ELSE SuccessResult(Basename(path), st.size, Hex(header))

\* ------------------------------------------------------------------ state

VARIABLES
    fs,          \* the file system: what each path resolves to
    pc,          \* pc[p]: where process p stands
    argv,        \* argv[p]: sys.argv of process p
    filepath,    \* the argument of the running call of parse_ddd
    size,        \* its locals: size, filename, f, header, header_hex
    filename,
    f,           \* f[p]: the file object, [open, pos]
    header,
    header_hex,
    exc,         \* the exception in flight, NoExc when none
    result,      \* what parse_ddd returned, Pending before it returns
    stdout,      \* the documents printed, in order
    exitCode,    \* the exit status, -1 while the process runs
    io,          \* the calls of the running invocation on the file system
    calls,       \* invocations of parse_ddd this process has started
    prev         \* argument and result of the invocation before this one

vars ==
    << fs, pc, argv, filepath, size, filename, f, header, header_hex, exc,
       result, stdout, exitCode, io, calls, prev >>

NoIo == [stat |-> 0, open |-> 0, opened |-> 0, read |-> 0, close |-> 0]

ClosedFile == [open |-> FALSE, pos |-> 0]

NoPrev == [path |-> << >>, result |-> Pending]

ScriptName == << "simple_dump.py" >>

\* The command lines: no argument, one path, a path and a second argument.
Argvs ==
    {<< ScriptName >>} \cup {<< ScriptName, path >> : path \in Paths}
        \cup {<< ScriptName, path, SamplePath >> : path \in Paths}

\* A fresh frame of parse_ddd: no local is bound yet.
FreshLocals ==
    /\ size = [p \in Procs |-> 0]
    /\ filename = [p \in Procs |-> << >>]
    /\ f = [p \in Procs |-> ClosedFile]
    /\ header = [p \in Procs |-> << >>]
    /\ header_hex = [p \in Procs |-> << >>]
    /\ exc = [p \in Procs |-> NoExc]
    /\ result = [p \in Procs |-> Pending]
    /\ io = [p \in Procs |-> NoIo]
    /\ prev = [p \in Procs |-> NoPrev]

\* One process started from the command line.
Init ==
    /\ fs = TheFileSystem
    /\ pc = [p \in Procs |-> IF p = 1 THEN "main" ELSE "idle"]
    /\ \E a \in Argvs :
          argv = [p \in Procs |-> IF p = 1 THEN a ELSE << ScriptName >>]
    /\ filepath = [p \in Procs |-> << >>]
    /\ stdout = [p \in Procs |-> << >>]
    /\ exitCode = [p \in Procs |-> -1]
    /\ calls = [p \in Procs |-> 0]
    /\ FreshLocals

\* Every process started from the command line, each on a path of its own
\* choice.
InitPar ==
    /\ fs = TheFileSystem
    /\ pc = [p \in Procs |-> "main"]
    /\ argv \in [Procs -> {<< ScriptName, path >> : path \in ParPaths}]
    /\ filepath = [p \in Procs |-> << >>]
    /\ stdout = [p \in Procs |-> << >>]
    /\ exitCode = [p \in Procs |-> -1]
    /\ calls = [p \in Procs |-> 0]
    /\ FreshLocals

\* One caller that has just called parse_ddd(path).
InitSeq ==
    /\ fs = TheFileSystem
    /\ pc = [p \in Procs |-> IF p = 1 THEN "getsize" ELSE "idle"]
    /\ argv = [p \in Procs |-> << ScriptName >>]
    /\ \E path \in Paths :
          filepath = [p \in Procs |-> IF p = 1 THEN path ELSE << >>]
    /\ stdout = [p \in Procs |-> << >>]
    /\ exitCode = [p \in Procs |-> -1]
    /\ calls = [p \in Procs |-> IF p = 1 THEN 1 ELSE 0]
    /\ FreshLocals

\* ---------------------------------------------------------------- actions

\* if len(sys.argv) < 2: print the error, exit 1; else call parse_ddd.
Main(p) ==
    /\ pc[p] = "main"
    /\ IF Len(argv[p]) < 2
       THEN /\ stdout' = [stdout EXCEPT ![p] = Append(@, JsonDumps(NoFileResult, -1))]
            /\ exitCode' = [exitCode EXCEPT ![p] = ExitNoFile]
            /\ pc' = [pc EXCEPT ![p] = "exited"]
            /\ UNCHANGED << filepath, calls >>
       ELSE /\ filepath' = [filepath EXCEPT ![p] = argv[p][2]]
            /\ calls' = [calls EXCEPT ![p] = @ + 1]
            /\ pc' = [pc EXCEPT ![p] = "getsize"]
            /\ UNCHANGED << stdout, exitCode >>
    /\ UNCHANGED << fs, argv, size, filename, f, header, header_hex, exc,
                    result, io, prev >>

\* size = os.path.getsize(filepath); filename = os.path.basename(filepath)
Stat(p) ==
    /\ pc[p] = "getsize"
    /\ io' = [io EXCEPT ![p].stat = @ + 1]
    /\ LET st == GetSize(fs, filepath[p])
       IN  IF st.exc # NoExc
           THEN /\ exc' = [exc EXCEPT ![p] = st.exc]
                /\ pc' = [pc EXCEPT ![p] = "except"]
                /\ UNCHANGED << size, filename >>
           ELSE /\ size' = [size EXCEPT ![p] = st.size]
                /\ filename' = [filename EXCEPT ![p] = Basename(filepath[p])]
                /\ pc' = [pc EXCEPT ![p] = "open"]
                /\ UNCHANGED exc
    /\ UNCHANGED << fs, argv, filepath, f, header, header_hex, result, stdout,
                    exitCode, calls, prev >>

\* open(filepath, 'w+b'): the file is cut to length 0 as it is opened.
OpenTruncating(p) ==
    /\ pc[p] = "open"
    /\ LET e == OpenExc(fs, filepath[p])
       IN  IF e # NoExc
           THEN /\ exc' = [exc EXCEPT ![p] = e]
                /\ io' = [io EXCEPT ![p].open = @ + 1]
                /\ pc' = [pc EXCEPT ![p] = "except"]
                /\ UNCHANGED << f, fs >>
           ELSE /\ f' = [f EXCEPT ![p] = [open |-> TRUE, pos |-> 0]]
                /\ fs' = [fs EXCEPT ![filepath[p]] = RegularFile(<< >>)]
                /\ io' = [io EXCEPT ![p].open = @ + 1, ![p].opened = @ + 1]
                /\ pc' = [pc EXCEPT ![p] = "read"]
                /\ UNCHANGED exc
    /\ UNCHANGED << argv, filepath, size, filename, header, header_hex,
                    result, stdout, exitCode, calls, prev >>

\* An open that asks for the file exclusively: it fails while another
\* process holds the same file open.
OpenExclusive(p) ==
    /\ pc[p] = "open"
    /\ LET busy == \E q \in Procs :
                      q # p /\ f[q].open /\ filepath[q] = filepath[p]
           e == IF busy THEN OSErrorAt(13, filepath[p])
                ELSE OpenExc(fs, filepath[p])
       IN  IF e # NoExc
           THEN /\ exc' = [exc EXCEPT ![p] = e]
                /\ io' = [io EXCEPT ![p].open = @ + 1]
                /\ pc' = [pc EXCEPT ![p] = "except"]
                /\ UNCHANGED f
           ELSE /\ f' = [f EXCEPT ![p] = [open |-> TRUE, pos |-> 0]]
                /\ io' = [io EXCEPT ![p].open = @ + 1, ![p].opened = @ + 1]
                /\ pc' = [pc EXCEPT ![p] = "read"]
                /\ UNCHANGED exc
    /\ UNCHANGED << fs, argv, filepath, size, filename, header, header_hex,
                    result, stdout, exitCode, calls, prev >>

\* with open(filepath, 'rb') as f: entering the block.
Open(p) ==
    /\ pc[p] = "open"
    /\ LET e == OpenExc(fs, filepath[p])
       IN  IF e # NoExc
           THEN /\ exc' = [exc EXCEPT ![p] = e]
                /\ io' = [io EXCEPT ![p].open = @ + 1]
                /\ pc' = [pc EXCEPT ![p] = "except"]
                /\ UNCHANGED f
           ELSE /\ f' = [f EXCEPT ![p] = [open |-> TRUE, pos |-> 0]]
                /\ io' = [io EXCEPT ![p].open = @ + 1, ![p].opened = @ + 1]
                /\ pc' = [pc EXCEPT ![p] = "read"]
                /\ UNCHANGED exc
    /\ UNCHANGED << fs, argv, filepath, size, filename, header, header_hex,
                    result, stdout, exitCode, calls, prev >>

\* header = f.read(16); header_hex = header.hex()
Read(p) ==
    /\ pc[p] = "read"
    /\ f[p].open
    /\ io' = [io EXCEPT ![p].read = @ + 1]
    /\ IF Node(fs, filepath[p]).eio
       THEN /\ exc' = [exc EXCEPT ![p] = OSErrorPlain(5)]
            /\ UNCHANGED << f, header, header_hex >>
       ELSE LET data == FRead(Node(fs, filepath[p]).bytes, f[p].pos, HeaderLen)
            IN  /\ header' = [header EXCEPT ![p] = data]
                /\ f' = [f EXCEPT ![p].pos = @ + Len(data)]
                /\ header_hex' = [header_hex EXCEPT ![p] = Hex(data)]
                /\ UNCHANGED exc
    /\ pc' = [pc EXCEPT ![p] = "close"]
    /\ UNCHANGED << fs, argv, filepath, size, filename, result, stdout,
                    exitCode, calls, prev >>

\* f = open(...); ...; f.close() without with or finally: the close is
\* skipped when the read raises.
CloseUnlessRaised(p) ==
    /\ pc[p] = "close"
    /\ IF exc[p] = NoExc
       THEN /\ f' = [f EXCEPT ![p].open = FALSE]
            /\ io' = [io EXCEPT ![p].close = @ + 1]
       ELSE UNCHANGED << f, io >>
    /\ pc' = [pc EXCEPT ![p] = IF exc[p] = NoExc THEN "return" ELSE "except"]
    /\ UNCHANGED << fs, argv, filepath, size, filename, header, header_hex,
                    exc, result, stdout, exitCode, calls, prev >>

\* Leaving the with block, normally or with the exception of the read in
\* flight: the file is closed either way.
Close(p) ==
    /\ pc[p] = "close"
    /\ f' = [f EXCEPT ![p].open = FALSE]
    /\ io' = [io EXCEPT ![p].close = @ + 1]
    /\ pc' = [pc EXCEPT ![p] = IF exc[p] = NoExc THEN "return" ELSE "except"]
    /\ UNCHANGED << fs, argv, filepath, size, filename, header, header_hex,
                    exc, result, stdout, exitCode, calls, prev >>

\* return {"title": ..., "filename": filename, ...}
Return(p) ==
    /\ pc[p] = "return"
    /\ result' = [result EXCEPT
                    ![p] = SuccessResult(filename[p], size[p], header_hex[p])]
    /\ pc' = [pc EXCEPT ![p] = "returned"]
    /\ UNCHANGED << fs, argv, filepath, size, filename, f, header, header_hex,
                    exc, stdout, exitCode, io, calls, prev >>

\* except Exception as e: return {"error": str(e)}.  An exception the clause
\* does not catch leaves parse_ddd and ends the process with status 1.
Except(p) ==
    /\ pc[p] = "except"
    /\ IF Caught(exc[p])
       THEN /\ result' = [result EXCEPT ![p] = ErrorResult(exc[p])]
            /\ pc' = [pc EXCEPT ![p] = "returned"]
            /\ UNCHANGED exitCode
       ELSE /\ pc' = [pc EXCEPT ![p] = "raised"]
            /\ exitCode' = [exitCode EXCEPT ![p] = 1]
            /\ UNCHANGED result
    /\ UNCHANGED << fs, argv, filepath, size, filename, f, header, header_hex,
                    exc, stdout, io, calls, prev >>

\* The script ends with sys.exit(1) when the result carries an error.
PrintResultExitOnError(p) ==
    /\ pc[p] = "returned"
    /\ stdout' = [stdout EXCEPT ![p] = Append(@, JsonDumps(result[p], Indent))]
    /\ exitCode' = [exitCode EXCEPT
                      ![p] = IF "error" \in DOMAIN result[p] THEN 1 ELSE 0]
    /\ pc' = [pc EXCEPT ![p] = "exited"]
    /\ UNCHANGED << fs, argv, filepath, size, filename, f, header, header_hex,
                    exc, result, io, calls, prev >>

\* print(json.dumps(result, indent=2)); the script ends, status 0.
PrintResult(p) ==
    /\ pc[p] = "returned"
    /\ stdout' = [stdout EXCEPT ![p] = Append(@, JsonDumps(result[p], Indent))]
    /\ exitCode' = [exitCode EXCEPT ![p] = 0]
    /\ pc' = [pc EXCEPT ![p] = "exited"]
    /\ UNCHANGED << fs, argv, filepath, size, filename, f, header, header_hex,
                    exc, result, io, calls, prev >>

\* The caller calls parse_ddd again: a new frame, nothing kept of the last
\* one but what the caller holds (its argument and its result).
Reinvoke(p) ==
    /\ pc[p] = "returned"
    /\ calls[p] < MaxCalls
    /\ \E path \in Paths : filepath' = [filepath EXCEPT ![p] = path]
    /\ prev' = [prev EXCEPT ![p] = [path |-> filepath[p], result |-> result[p]]]
    /\ calls' = [calls EXCEPT ![p] = @ + 1]
    /\ size' = [size EXCEPT ![p] = 0]
    /\ filename' = [filename EXCEPT ![p] = << >>]
    /\ f' = [f EXCEPT ![p] = ClosedFile]
    /\ header' = [header EXCEPT ![p] = << >>]
    /\ header_hex' = [header_hex EXCEPT ![p] = << >>]
    /\ exc' = [exc EXCEPT ![p] = NoExc]
    /\ result' = [result EXCEPT ![p] = Pending]
    /\ io' = [io EXCEPT ![p] = NoIo]
    /\ pc' = [pc EXCEPT ![p] = "getsize"]
    /\ UNCHANGED << fs, argv, stdout, exitCode >>

\* One step of parse_ddd.
Step(p) ==
    \/ Stat(p)
    \/ Open(p)
    \/ Read(p)
    \/ Close(p)
    \/ Return(p)
    \/ Except(p)

Next == \E p \in Procs : Main(p) \/ Step(p) \/ PrintResult(p)

NextSeq == \E p \in Procs : Step(p) \/ Reinvoke(p)

\* The script run once from the command line.
Spec == Init /\ [][Next]_vars

\* The script run by several processes at once.
SpecPar == InitPar /\ [][Next]_vars

\* parse_ddd called several times in succession by one caller.
SpecSeq == InitSeq /\ [][NextSeq]_vars

\* ----------------------------------------------------- what the claims use

SuccessFields ==
    {"title", "filename", "format", "fileSize", "headerHex", "message"}

IsSuccess(r) == DOMAIN r = SuccessFields

IsFailure(r) == DOMAIN r = {"error"}

\* parse_ddd has returned to its caller.
Returned(p) == pc[p] \in {"returned", "exited"} /\ result[p] # Pending

\* The path names an existing regular file that can be opened and read.
Readable(path) ==
    /\ ~HasNul(path)
    /\ path \in DOMAIN fs
    /\ fs[path].kind = "file"
    /\ fs[path].errno = 0
    /\ fs[path].readable
    /\ ~fs[path].eio

Content(path) == fs[path].bytes

LowerHex == << "0", "1", "2", "3", "4", "5", "6", "7",
               "8", "9", "a", "b", "c", "d", "e", "f" >>

IsLowerHex(c) == \E v \in 1..16 : LowerHex[v] = c

DigitValue(c) == (CHOOSE v \in 1..16 : LowerHex[v] = c) - 1

\* bytes.fromhex(text) for a text of lowercase digits of even length.
Unhex(text) ==
    [i \in 1..(Len(text) \div 2) |->
        16 * DigitValue(text[2 * i - 1]) + DigitValue(text[2 * i])]

\* C1: for every existing, readable file, the result parse_ddd returns is
\* success-shaped and its fileSize is the byte length of the file.
C1_FileSizeIsLength ==
    \A p \in Procs :
        (Returned(p) /\ Readable(filepath[p])) =>
            /\ IsSuccess(result[p])
            /\ result[p].fileSize = Len(Content(filepath[p]))

C1_Witness ==
    \E p \in Procs :
        /\ Returned(p)
        /\ filepath[p] = MixedPath(MaxFileLen)
        /\ IsSuccess(result[p])
        /\ result[p].fileSize = MaxFileLen

\* C2: for every existing, readable file, headerHex is a text of lowercase
\* hexadecimal digits, 2 * min(16, fileSize) long, that decodes to the first
\* min(16, fileSize) bytes of the file; an empty file gives "" and 0.
C2_HeaderHexRoundTrip ==
    \A p \in Procs :
        (Returned(p) /\ Readable(filepath[p])) =>
            /\ IsSuccess(result[p])
            /\ LET hex == result[p].headerHex
                   n == Min(16, result[p].fileSize)
               IN  /\ Len(hex) = 2 * n
                   /\ \A i \in 1..Len(hex) : IsLowerHex(hex[i])
                   /\ Unhex(hex) = SubSeq(Content(filepath[p]), 1, n)
            /\ Content(filepath[p]) = << >> =>
                 /\ result[p].headerHex = << >>
                 /\ result[p].fileSize = 0

C2_Witness ==
    \E p \in Procs :
        /\ Returned(p)
        /\ filepath[p] = DownPath(MaxFileLen)
        /\ IsSuccess(result[p])
        /\ Len(result[p].headerHex) = 32
        /\ SubSeq(result[p].headerHex, 1, 4) = << "f", "f", "f", "e" >>

\* C3: a failure while sizing, opening or reading the target makes
\* parse_ddd return the failure-shaped result that carries the text of the
\* cause, whatever the cause; no exception leaves parse_ddd.
C3_FailuresBecomeErrorResults ==
    \A p \in Procs :
        /\ pc[p] # "raised"
        /\ (Returned(p) /\ ~Readable(filepath[p])) =>
              /\ exc[p] # NoExc
              /\ IsFailure(result[p])
              /\ result[p].error = StrExc(exc[p])
        /\ (Returned(p) /\ exc[p] # NoExc) => IsFailure(result[p])

C3_Witness ==
    \E p \in Procs :
        /\ Returned(p)
        /\ filepath[p] = BadDiskPath
        /\ io[p].read = 1
        /\ result[p] = [error |-> << "[Errno 5] Input/output error" >>]

\* C4: every result parse_ddd returns is of one of two exclusive shapes:
\* the six success fields and no error, or the error field alone.
C4_TwoExclusiveShapes ==
    \A p \in Procs :
        result[p] # Pending =>
            /\ IsSuccess(result[p]) \/ IsFailure(result[p])
            /\ ~(IsSuccess(result[p]) /\ IsFailure(result[p]))
            /\ "error" \in DOMAIN result[p] =>
                  DOMAIN result[p] \cap SuccessFields = {}
            /\ IsSuccess(result[p]) <=> exc[p] = NoExc

C4_Witness ==
    \E p \in Procs :
        /\ Returned(p)
        /\ filepath[p] = SecretPath
        /\ DOMAIN result[p] = {"error"}

\* The document printed holds the members of obj and nothing else.
Prints(doc, obj) ==
    /\ Len(doc.members) = Cardinality(DOMAIN obj)
    /\ \A k \in DOMAIN obj :
          \E i \in 1..Len(doc.members) :
              doc.members[i].key = k /\ doc.members[i].value = obj[k]

\* C5: a run from the command line ends with status 1 exactly when no path
\* is given; then stdout holds the object {"error": "No file provided"} and
\* no file was sized or opened.  In every other case the status is 0 and
\* stdout holds the one result of parse_ddd, also when it is an error.
C5_ExitCodes ==
    \A p \in Procs :
        /\ pc[p] \notin {"exited", "raised"} => exitCode[p] = -1
        /\ pc[p] \in {"exited", "raised"} =>
              /\ exitCode[p] = 1 <=> Len(argv[p]) < 2
              /\ Len(argv[p]) < 2 =>
                    /\ Len(stdout[p]) = 1
                    /\ Len(stdout[p][1].members) = 1
                    /\ stdout[p][1].members[1].key = "error"
                    /\ stdout[p][1].members[1].value = << "No file provided" >>
                    /\ io[p].stat = 0 /\ io[p].open = 0 /\ calls[p] = 0
              /\ Len(argv[p]) >= 2 =>
                    /\ exitCode[p] = 0
                    /\ calls[p] = 1
                    /\ result[p] # Pending
                    /\ Len(stdout[p]) = 1
                    /\ Prints(stdout[p][1], result[p])

C5_Witness ==
    \E p \in Procs :
        /\ pc[p] = "exited"
        /\ argv[p] = << ScriptName, MissingPath >>
        /\ IsFailure(result[p])
        /\ exitCode[p] = 0

\* C6 as claimed: every invocation opens the file exactly once and closes
\* it, and holds no handle when it returns.
C6_ExactlyOneOpenAndClose ==
    \A p \in Procs :
        Returned(p) =>
            /\ io[p].opened = 1
            /\ io[p].close = 1
            /\ ~f[p].open

\* C6, amended: an invocation tries to open the file once when the sizing
\* succeeded and never when it failed; an open that succeeds is followed by
\* one close; no handle is held when parse_ddd returns, on any exit path.
C6_AtMostOneOpenAlwaysClosed ==
    \A p \in Procs :
        /\ io[p].close <= io[p].opened
        /\ io[p].opened <= io[p].open
        /\ io[p].open <= 1
        /\ f[p].open <=> io[p].opened = io[p].close + 1
        /\ f[p].open => pc[p] \in {"read", "close"}
        /\ Returned(p) =>
              /\ ~f[p].open
              /\ io[p].close = io[p].opened
              /\ io[p].open = 1 <=> GetSize(fs, filepath[p]).exc = NoExc
              /\ io[p].opened = 1 <=>
                    /\ GetSize(fs, filepath[p]).exc = NoExc
                    /\ OpenExc(fs, filepath[p]) = NoExc

C6_Witness ==
    \E p \in Procs :
        /\ Returned(p)
        /\ filepath[p] = BadDiskPath
        /\ IsFailure(result[p])
        /\ io[p].opened = 1
        /\ io[p].close = 1
        /\ ~f[p].open

\* C7: what an invocation reads is a prefix of the file of at most 16 bytes:
\* the read position never passes offset 16, and a file shorter than 16
\* bytes is read to its end without an error.
C7_ReadsAtMostSixteenBytes ==
    \A p \in Procs :
        /\ f[p].pos <= 16
        /\ Len(header[p]) <= 16
        /\ io[p].read <= 1
        /\ io[p].read = 1 =>
              header[p] = SubSeq(Content(filepath[p]), 1, Len(header[p]))
        /\ (Returned(p) /\ Readable(filepath[p])
                /\ Len(Content(filepath[p])) < 16) =>
              /\ IsSuccess(result[p])
              /\ f[p].pos = Len(Content(filepath[p]))
              /\ header[p] = Content(filepath[p])

C7_Witness ==
    \E p \in Procs :
        /\ Returned(p)
        /\ filepath[p] = UpPath(MaxFileLen)
        /\ Len(Content(filepath[p])) > 16
        /\ f[p].pos = 16
        /\ Len(header[p]) = 16

\* C8: a second invocation on the path of the first, the file system not
\* having changed, returns the result the first returned.
C8_Idempotent ==
    \A p \in Procs :
        (calls[p] >= 2 /\ Returned(p) /\ filepath[p] = prev[p].path) =>
            result[p] = prev[p].result

C8_Witness ==
    \E p \in Procs :
        /\ calls[p] = 2
        /\ Returned(p)
        /\ filepath[p] = UpPath(MaxFileLen)
        /\ prev[p].path = UpPath(MaxFileLen)
        /\ IsSuccess(result[p])
        /\ result[p] = prev[p].result

\* C9: invocations run in parallel, in any interleaving of their steps and
\* on different files or the same one, each return what they would return
\* alone, and none changes a file.
C9_ParallelRunsIndependent ==
    /\ fs = TheFileSystem
    /\ \A p \in Procs :
          Returned(p) => result[p] = parse_ddd(TheFileSystem, filepath[p])

C9_Witness ==
    \E p, q \in Procs :
        /\ p # q
        /\ filepath[p] = UpPath(MaxFileLen)
        /\ filepath[q] = UpPath(MaxFileLen)
        /\ f[p].open
        /\ f[q].open
        /\ pc[p] = "close"
        /\ pc[q] = "read"

\* C10: the fixed fields do not depend on the content: every success-shaped
\* result has format "DDD" and the fixed title and message, and the results
\* for two readable files of the same base name and size differ at most in
\* headerHex.
C10_ContentIndependent ==
    \A p \in Procs :
        /\ (Returned(p) /\ IsSuccess(result[p])) =>
              /\ result[p].format = "DDD"
              /\ result[p].title = "Report from Python Parser"
              /\ result[p].message =
                    "This file was processed by the Python fallback parser."
        /\ (calls[p] >= 2 /\ Returned(p)
                /\ Readable(filepath[p]) /\ Readable(prev[p].path)
                /\ Basename(filepath[p]) = Basename(prev[p].path)
                /\ Len(Content(filepath[p])) = Len(Content(prev[p].path))) =>
              /\ IsSuccess(result[p])
              /\ IsSuccess(prev[p].result)
              /\ \A k \in SuccessFields \ {"headerHex"} :
                    result[p][k] = prev[p].result[k]

C10_Witness ==
    \E p \in Procs :
        /\ calls[p] = 2
        /\ Returned(p)
        /\ prev[p].path = UpPath(MaxFileLen)
        /\ filepath[p] = DownPath(MaxFileLen)
        /\ IsSuccess(result[p])
        /\ IsSuccess(prev[p].result)
        /\ result[p].headerHex # prev[p].result.headerHex

====
